---- MODULE Spec2Model ----
(***************************************************************************)
(* Model of Orange/widgets/visualize/owlinearprojection.py:                *)
(*   - LinearProjectionVizRank: the enumeration of candidate states        *)
(*     (iterate_states, state_count), the bookkeeping done before a run    *)
(*     (before_running) and the scoring of one candidate (compute_score);  *)
(*   - OWLinearProjection._init_vizrank: the preconditions of the search;  *)
(*   - CircularPlacement.get_components: the angles of the axes.           *)
(***************************************************************************)
EXTENDS Integers, Sequences, FiniteSets, TLC

VARIABLES
    attrs_len,          \* len(self.attrs): number of ranked variables
    n_attrs,            \* self.n_attrs: requested subset size
    gen,                \* the generator object returned by iterate_states
    yielded,            \* the states the generator has yielded so far
    state,              \* the state last drawn from the generator
    ref,                \* the generator of the uninterrupted run
    ref_state,          \* the state last drawn from the uninterrupted run
    pauses,             \* how many times the run has been paused
    saved_state,        \* self.saved_state
    saved_progress,     \* self.saved_progress
    last_run_n_attrs,   \* self.last_run_n_attrs
    scores,             \* the accumulated results (rank_model rows)
    status,             \* position of the search driver
    progress,           \* candidates the driver has handled in this search
    started_as,         \* which branch before_running took at the last start
    spin_disabled,      \* self.n_attrs_spin.isEnabled() negated
    button_text,        \* self.button.text()
    score,              \* what compute_score did for `state`
    n_inst,             \* ec.shape[0]: number of embedded instances
    singular,           \* ranked variables on which the projector fails
    knn_fitted,         \* some compute_score got as far as fitting the knn
    n_neighbors,        \* n_neighbors of the last compute_score that set it
    data,               \* master.data (None or its relevant properties)
    attr_color,         \* master.attr_color (None or its relevant properties)
    placement,          \* master.placement
    btn_enabled,        \* master.btn_vizrank.isEnabled()
    tooltip,            \* master.btn_vizrank.toolTip()
    comb,               \* the list s of combinations() inside iterate_states
    comb_at,            \* position of combinations(): start, yielded, done
    visited,            \* the lists combinations() has yielded so far
    X,                  \* the data matrix handed to get_components
    Y,                  \* the class column handed to get_components
    components          \* what get_components returned (None before)

enumVars == <<attrs_len, n_attrs, gen, yielded>>
resumeVars == <<state, ref, ref_state, pauses>>
rankVars == <<saved_state, saved_progress, last_run_n_attrs, scores, status,
              progress, started_as, spin_disabled, button_text, score,
              n_inst, singular, knn_fitted, n_neighbors>>
masterVars == <<data, attr_color, placement, btn_enabled, tooltip>>
combVars == <<comb, comb_at, visited>>
placeVars == <<X, Y, components>>
vars == <<enumVars, resumeVars, rankVars, masterVars, combVars, placeVars>>

\* Python's None, for each kind of value that can be None
None == <<>>            \* in place of a state (a tuple of indices)
NoRun == 0              \* in place of a subset size (last_run_n_attrs)
NoStart == [branch |-> "none", dropped |-> FALSE]   \* no search started yet
NoVar == [kind |-> "none", all_nan |-> FALSE]   \* in place of a variable

\* ---- bounds --------------------------------------------------------------
MaxAttrs == 6           \* largest number of ranked variables enumerated
MaxPauses == 1          \* pauses followed through in one search
MaxResumeAttrs == 5     \* largest number of ranked variables when resuming
MaxRankAttrs == 4       \* largest number of ranked variables when scoring
MaxInst == 11           \* largest number of embedded instances
MaxCont == 4            \* largest number of continuous variables of a table
MaxValid == 3           \* largest number of valid instances of a table
MaxAxes == 6            \* largest number of columns of a data matrix
MaxRows == 1            \* largest number of rows of a data matrix

\* ---- program constants ------------------------------------------------------
minK == 10              \* LinearProjectionVizRank.minK
MinAttrs == 3           \* minimum of n_attrs_spin

\* ---- helpers -------------------------------------------------------------
RECURSIVE factorial(_)
factorial(m) == IF m <= 0 THEN 1 ELSE m * factorial(m - 1)

Min(a, b) == IF a < b THEN a ELSE b

Range(seq) == {seq[i] : i \in 1..Len(seq)}

Reverse(seq) == [i \in 1..Len(seq) |-> seq[Len(seq) + 1 - i]]

Remove(seq, i) == SubSeq(seq, 1, i - 1) \o SubSeq(seq, i + 1, Len(seq))

\* itertools.permutations yields the orderings of seq lazily, in
\* lexicographic order of positions; this is the one it yields after j others
RECURSIVE permutation_at(_, _)
permutation_at(seq, j) ==
    IF seq = <<>> THEN <<>>
    ELSE LET f == factorial(Len(seq) - 1)
             i == (j \div f) + 1
         IN  <<seq[i]>> \o permutation_at(Remove(seq, i), j % f)

\* list(itertools.permutations(seq))
permutations(seq) ==
    [m \in 1..factorial(Len(seq)) |-> permutation_at(seq, m - 1)]

\* itertools.islice(it, m): how many of the total items of `it` it passes on
islice(total, m) == Min(m, total)

\* range(k) as a list
range(k) == [i \in 1..k |-> i - 1]

\* ---- LinearProjectionVizRank.state_count ----------------------------------
state_count(n, k) == factorial(n) \div (2 * factorial(n - k) * k)

\* ---- LinearProjectionVizRank.iterate_states --------------------------------
\* the for loop of combinations(): position i here is `up` = i - 1 there
RECURSIVE carry_ResetsToZero(_, _)
carry_ResetsToZero(s, i) ==
    LET s1 == [s EXCEPT ![i] = @ + 1]
    IN  IF i = Len(s) \/ s1[i] < s1[i + 1]
        THEN s1
        ELSE carry_ResetsToZero([s1 EXCEPT ![i] = 0], i + 1)

RECURSIVE carry(_, _)
carry(s, i) ==
    LET s1 == [s EXCEPT ![i] = @ + 1]
    IN  IF i = Len(s) \/ s1[i] < s1[i + 1]
        THEN s1
        ELSE carry([s1 EXCEPT ![i] = i - 1], i + 1)

\* one turn of the while loop of combinations() after a yield:
\* the next list, and whether the loop broke (s[-1] == n)
next_combination(n, s) ==
    LET s1 == carry(s, 1)
    IN  [s |-> s1, stop |-> s1[Len(s1)] = n]

\* how many tail permutations are taken for one combination
half_MissingHalving(k) == factorial(k - 1)
half(k) == factorial(k - 1) \div 2

\* the tuple yielded for combination c and tail permutation p
candidate_IgnoresPermutation(c, p) == <<c[1]>> \o Tail(c)
candidate(c, p) == <<c[1]>> \o p

\* islice(permutations(c[1:]), factorial(len(c) - 1) // 2): how many tail
\* permutations of combination c are yielded, and the one yielded after j
tail_orders(c) == islice(factorial(Len(c) - 1), half(Len(c)))

tail_order(c, j) == permutation_at(Tail(c), j)

\* iterate_states(state): the generator before its first item.
\* c is the list `state`, j the number of permutations already taken of it.
iterate_states(st, k) ==
    [c |-> IF st = None THEN range(k) ELSE st, j |-> 0, fin |-> FALSE]

\* next(generator): the item yielded (None on StopIteration) and the
\* generator afterwards
RECURSIVE next(_, _)
next(g, n) ==
    IF g.fin THEN [gen |-> g, val |-> None]
    ELSE IF g.j < tail_orders(g.c)
    THEN [gen |-> [g EXCEPT !.j = @ + 1],
          val |-> candidate(g.c, tail_order(g.c, g.j))]
    ELSE LET nc == next_combination(n, g.c)
         IN  IF nc.stop
             THEN [gen |-> [g EXCEPT !.c = nc.s, !.fin = TRUE], val |-> None]
             ELSE next([c |-> nc.s, j |-> 0, fin |-> FALSE], n)

\* in place of a data table
NoData == [present |-> FALSE, n_cont |-> 0, n_valid |-> 0, lda_ok |-> FALSE]

\* ---- values of the variables a specification does not use ------------------
IdleGen == [c |-> <<0>>, j |-> 0, fin |-> TRUE]

EnumIdle ==
    /\ attrs_len = 0 /\ n_attrs = 0 /\ gen = IdleGen /\ yielded = <<>>

ResumeIdle ==
    /\ state = None /\ ref = IdleGen /\ ref_state = None /\ pauses = 0

RankIdle ==
    /\ saved_state = None /\ saved_progress = 0 /\ last_run_n_attrs = NoRun
    /\ scores = <<>> /\ status = "idle" /\ progress = 0
    /\ started_as = NoStart /\ spin_disabled = FALSE
    /\ button_text = "Start" /\ score = "unset"
    /\ n_inst = 0 /\ singular = {} /\ knn_fitted = FALSE /\ n_neighbors = 0

MasterIdle ==
    /\ data = NoData /\ attr_color = NoVar /\ placement = "Circular"
    /\ btn_enabled = FALSE /\ tooltip = ""

CombIdle ==
    /\ comb = <<0>> /\ comb_at = "done" /\ visited = <<>>

PlaceIdle ==
    /\ X = <<>> /\ Y = <<>> /\ components = None

\* ==========================================================================
\* SpecEnum: one complete run of iterate_states(None) for each n and k
\* ==========================================================================
InitEnum ==
    /\ attrs_len \in 1..MaxAttrs
    /\ n_attrs \in 1..attrs_len
    /\ gen = iterate_states(None, n_attrs)
    /\ yielded = <<>>
    /\ ResumeIdle /\ RankIdle /\ MasterIdle /\ CombIdle /\ PlaceIdle

\* next() returns a state
Yield ==
    /\ ~gen.fin
    /\ LET r == next(gen, attrs_len)
       IN  /\ r.val # None
           /\ gen' = r.gen
           /\ yielded' = Append(yielded, r.val)
    /\ UNCHANGED <<attrs_len, n_attrs, resumeVars, rankVars, masterVars,
                   combVars, placeVars>>

\* next() raises StopIteration
Exhaust ==
    /\ ~gen.fin
    /\ LET r == next(gen, attrs_len)
       IN  /\ r.val = None
           /\ gen' = r.gen
    /\ UNCHANGED <<attrs_len, n_attrs, yielded, resumeVars, rankVars,
                   masterVars, combVars, placeVars>>

NextEnum == Yield \/ Exhaust

SpecEnum == InitEnum /\ [][NextEnum]_vars

\* ---- claims about a complete run ------------------------------------------
Yielded == Range(yielded)

\* C1 (as stated): for every n >= k >= 1 a complete run started with no
\* saved state yields exactly state_count() states.
C1_CountAllSizes ==
    gen.fin => Len(yielded) = state_count(attrs_len, n_attrs)

\* C1 (amended): for every n >= k >= 3 a complete run started with no saved
\* state yields exactly state_count() = n!/(2*(n-k)!*k) states.
C1_CountFromThree ==
    (gen.fin /\ n_attrs >= 3) =>
        Len(yielded) = state_count(attrs_len, n_attrs)

C1_Witness ==
    /\ gen.fin /\ n_attrs >= 4 /\ n_attrs < attrs_len
    /\ Len(yielded) = state_count(attrs_len, n_attrs)
    /\ Len(yielded) >= 15

\* C4: a complete run started with no saved state never yields the same
\* state twice.
C4_NoDuplicates == Cardinality(Yielded) = Len(yielded)

C4_Witness ==
    /\ gen.fin /\ n_attrs >= 4 /\ Len(yielded) >= 15
    /\ \E i, j \in 1..Len(yielded) :
           /\ i # j
           /\ Range(yielded[i]) = Range(yielded[j])

\* C6: for k >= 3 and every subset visited, of each tail ordering p and its
\* reverse exactly one is yielded (with the anchor in front).
mirror(y) == <<y[1]>> \o Reverse(Tail(y))

C6_MirrorHalves ==
    (gen.fin /\ n_attrs >= 3) =>
        \A y \in Yielded :
            \A p \in Range(permutations(Tail(y))) :
                (candidate(y, p) \in Yielded)
                    # (mirror(candidate(y, p)) \in Yielded)


\* ==========================================================================
\* SpecResume: a search that is paused at a yielded state and resumed with
\* iterate_states(saved_state), next to the same search left uninterrupted
\* ==========================================================================
InitResume ==
    /\ attrs_len \in MinAttrs..MaxResumeAttrs
    /\ n_attrs \in MinAttrs..attrs_len
    /\ gen = iterate_states(None, n_attrs)
    /\ ref = iterate_states(None, n_attrs)
    /\ state = None /\ ref_state = None /\ pauses = 0
    /\ yielded = <<>>
    /\ saved_state = None /\ saved_progress = 0 /\ last_run_n_attrs = NoRun
    /\ scores = <<>> /\ status = "running" /\ progress = 0
    /\ started_as = NoStart /\ spin_disabled = FALSE
    /\ button_text = "Start" /\ score = "unset"
    /\ n_inst = 0 /\ singular = {} /\ knn_fitted = FALSE /\ n_neighbors = 0
    /\ MasterIdle /\ CombIdle /\ PlaceIdle

resumeFrame ==
    UNCHANGED <<attrs_len, n_attrs, yielded, saved_progress, last_run_n_attrs,
                scores, progress, started_as, spin_disabled, button_text,
                score, n_inst, singular, knn_fitted, n_neighbors,
                masterVars, combVars, placeVars>>

\* the search draws its next state; so does the uninterrupted one
Draw ==
    /\ status = "running"
    /\ ~gen.fin \/ ~ref.fin
    /\ LET r == next(gen, attrs_len)
           u == next(ref, attrs_len)
       IN  /\ gen' = r.gen /\ state' = r.val
           /\ ref' = u.gen /\ ref_state' = u.val
    /\ UNCHANGED <<saved_state, status, pauses>>
    /\ resumeFrame

\* the search is paused: the state just drawn is saved instead of scored
Pause ==
    /\ status = "running"
    /\ state # None
    /\ pauses < MaxPauses
    /\ saved_state' = state
    /\ status' = "paused"
    /\ pauses' = pauses + 1
    /\ UNCHANGED <<gen, state, ref, ref_state>>
    /\ resumeFrame

\* the search continues: a new generator is made from the saved state and
\* its first item is drawn
Resume ==
    /\ status = "paused"
    /\ LET r == next(iterate_states(saved_state, n_attrs), attrs_len)
       IN  gen' = r.gen /\ state' = r.val
    /\ status' = "running"
    /\ UNCHANGED <<saved_state, ref, ref_state, pauses>>
    /\ resumeFrame

NextResume == Draw \/ Pause \/ Resume

SpecResume == InitResume /\ [][NextResume]_vars

\* C2: after pausing at a yielded state s and resuming with
\* iterate_states(s), the states drawn are those the uninterrupted run
\* draws from s on, in the same order, and both end together.
C2_ResumeDeterminism == state = ref_state

\* C5: every state yielded, in a fresh or in a resumed run, consists of k
\* pairwise distinct indices in 0..n-1, the first being the smallest.
valid_state(y) ==
    /\ Len(y) = n_attrs
    /\ Range(y) \subseteq 0..(attrs_len - 1)
    /\ Cardinality(Range(y)) = Len(y)
    /\ \A i \in 1..Len(y) : y[1] <= y[i]

C5_ValidStates == state # None => valid_state(state)

\* ==========================================================================
\* Spec: the ranking search of LinearProjectionVizRank: the subset size is
\* changed, the search is started, scores candidates, is paused, finishes
\* ==========================================================================

\* ---- LinearProjectionVizRank.before_running --------------------------------
\* the attributes it leaves, which of its branches were taken and whether
\* results were dropped
before_running_KeepsStale(k, last, st, prog, sc) ==
    [saved_state |-> st,
     saved_progress |-> prog,
     scores |-> IF st = None THEN <<>> ELSE sc,
     last_run_n_attrs |-> k,
     spin_disabled |-> TRUE,
     started_as |->
        [branch |-> IF k # last THEN (IF st = None THEN "new" ELSE "discard")
                    ELSE (IF st = None THEN "fresh" ELSE "resume"),
         dropped |-> (st = None /\ sc # <<>>)]]

before_running(k, last, st, prog, sc) ==
    LET st1 == IF k # last THEN None ELSE st
        prog1 == IF k # last THEN 0 ELSE prog
    IN  [saved_state |-> st1,
         saved_progress |-> prog1,
         scores |-> IF st1 = None THEN <<>> ELSE sc,
         last_run_n_attrs |-> k,
         spin_disabled |-> TRUE,
         started_as |->
            [branch |-> IF k # last
                        THEN (IF st = None THEN "new" ELSE "discard")
                        ELSE (IF st = None THEN "fresh" ELSE "resume"),
             dropped |-> (st1 = None /\ sc # <<>>)]]

\* ---- LinearProjectionVizRank.compute_score ---------------------------------
\* master.projector(...) raises on a candidate with a singular variable
projector_fails(st) == Range(st) \cap singular # {}

\* ec.shape[0] < self.minK
too_few_OnlyEmpty(m) == m < 1
too_few(m) == m < minK

\* what compute_score does for state st with m embedded instances:
\* it raises, returns None, or fits the knn and returns a score
compute_score_SwallowsFailure(st, m) ==
    IF too_few(m)
    THEN [result |-> "None", fitted |-> FALSE, n_neighbors |-> 0]
    ELSE [result |-> "scored", fitted |-> TRUE,
          n_neighbors |-> Min(minK, m - 1)]

compute_score(st, m) ==
    IF projector_fails(st)
    THEN [result |-> "raised", fitted |-> FALSE, n_neighbors |-> 0]
    ELSE IF too_few(m)
    THEN [result |-> "None", fitted |-> FALSE, n_neighbors |-> 0]
    ELSE [result |-> "scored", fitted |-> TRUE,
          n_neighbors |-> Min(minK, m - 1)]

\* the numbers of embedded instances tried: none, one, and those around minK
InstCounts == {0, 1} \cup ((minK - 1)..MaxInst)

\* ---- LinearProjectionVizRank._n_attrs_changed ------------------------------
n_attrs_changed_text(k, last, st) ==
    IF k # last \/ st = None THEN "Start" ELSE "Continue"

Init ==
    /\ attrs_len \in MinAttrs..MaxRankAttrs
    /\ n_attrs \in MinAttrs..attrs_len
    /\ n_inst \in InstCounts
    /\ singular \in {{}} \cup {{v} : v \in 0..(attrs_len - 1)}
    /\ gen = IdleGen /\ yielded = <<>>
    /\ ResumeIdle
    /\ saved_state = None /\ saved_progress = 0 /\ last_run_n_attrs = NoRun
    /\ scores = <<>> /\ status = "idle" /\ progress = 0
    /\ started_as = NoStart /\ spin_disabled = FALSE
    /\ button_text = "Start" /\ score = "unset"
    /\ knn_fitted = FALSE /\ n_neighbors = 0
    /\ MasterIdle /\ CombIdle /\ PlaceIdle

rankFrame ==
    UNCHANGED <<attrs_len, yielded, ref, ref_state, n_inst, singular,
                masterVars, combVars, placeVars>>

\* the spin box is set to another number of variables (_n_attrs_changed);
\* a finished search can then be started anew
NAttrsChanged ==
    /\ ~spin_disabled
    /\ \E k \in MinAttrs..attrs_len :
        /\ k # n_attrs
        /\ n_attrs' = k
        /\ button_text' = n_attrs_changed_text(k, last_run_n_attrs, saved_state)
    /\ status' = IF status = "done" THEN "idle" ELSE status
    /\ UNCHANGED <<gen, state, pauses, saved_state, saved_progress,
                   last_run_n_attrs, scores, progress, started_as,
                   spin_disabled, score, knn_fitted, n_neighbors>>
    /\ rankFrame

\* the search is started or continued: before_running(), then the driver
\* makes the generator from the saved state
Start ==
    /\ status \in {"idle", "paused"}
    /\ LET b == before_running(n_attrs, last_run_n_attrs, saved_state,
                               saved_progress, scores)
       IN  /\ saved_state' = b.saved_state
           /\ saved_progress' = b.saved_progress
           /\ scores' = b.scores
           /\ last_run_n_attrs' = b.last_run_n_attrs
           /\ spin_disabled' = b.spin_disabled
           /\ started_as' = b.started_as
           /\ progress' = b.saved_progress
           /\ gen' = iterate_states(b.saved_state, n_attrs)
           /\ pauses' = IF b.saved_state = None THEN 0 ELSE pauses
    /\ status' = "running"
    /\ button_text' = "Pause"
    /\ state' = None /\ score' = "unset"
    /\ UNCHANGED <<n_attrs, knn_fitted, n_neighbors>>
    /\ rankFrame

\* one turn of the driver's loop: the next state is drawn and scored; a
\* state that got a score is added to the results, any other is skipped
ScoreNext ==
    /\ status = "running"
    /\ LET r == next(gen, attrs_len)
           s == compute_score(r.val, n_inst)
       IN  /\ r.val # None
           /\ gen' = r.gen
           /\ state' = r.val
           /\ score' = s.result
           /\ knn_fitted' = (knn_fitted \/ s.fitted)
           /\ n_neighbors' = IF s.fitted THEN s.n_neighbors ELSE n_neighbors
           /\ scores' = IF s.result = "scored"
                        THEN Append(scores, r.val) ELSE scores
           /\ progress' = progress + 1
    /\ UNCHANGED <<n_attrs, pauses, saved_state, saved_progress,
                   last_run_n_attrs, status, started_as, spin_disabled,
                   button_text>>
    /\ rankFrame

\* the generator is exhausted: the search is done, stopped() is called
Finish ==
    /\ status = "running"
    /\ LET r == next(gen, attrs_len)
       IN  /\ r.val = None
           /\ gen' = r.gen
    /\ status' = "done"
    /\ saved_state' = None
    /\ saved_progress' = 0
    /\ state' = None /\ score' = "unset"
    /\ spin_disabled' = FALSE
    /\ button_text' = "Finished"
    /\ UNCHANGED <<n_attrs, pauses, last_run_n_attrs, scores, progress,
                   started_as, knn_fitted, n_neighbors>>
    /\ rankFrame

\* the search was asked to pause: the state drawn next is saved, not
\* scored, with the progress so far; stopped() is called
PauseSearch ==
    /\ status = "running"
    /\ pauses < MaxPauses
    /\ LET r == next(gen, attrs_len)
       IN  /\ r.val # None
           /\ gen' = r.gen
           /\ state' = r.val
           /\ saved_state' = r.val
    /\ saved_progress' = progress
    /\ score' = "unset"
    /\ status' = "paused"
    /\ pauses' = pauses + 1
    /\ spin_disabled' = FALSE
    /\ button_text' = "Continue"
    /\ UNCHANGED <<n_attrs, last_run_n_attrs, scores, progress, started_as,
                   knn_fitted, n_neighbors>>
    /\ rankFrame

Next == NAttrsChanged \/ Start \/ ScoreNext \/ Finish \/ PauseSearch

Spec == Init /\ [][Next]_vars

\* ---- claims about the ranking search ---------------------------------------
Starting == status # "running" /\ status' = "running"

\* C3: a search started with a subset size other than that of the last run
\* drops the saved state, the saved progress and all results and enumerates
\* from the first state; started with the same size and a saved state it
\* keeps all three and continues from the saved state; the enumerator of a
\* running search always has as many digits as the requested size.
C3_SizeChangeDiscards ==
    /\ [][Starting =>
            IF n_attrs # last_run_n_attrs
            THEN /\ saved_state' = None /\ saved_progress' = 0
                 /\ scores' = <<>> /\ progress' = 0
                 /\ gen'.c = range(n_attrs) /\ gen'.j = 0
            ELSE saved_state # None =>
                 /\ saved_state' = saved_state
                 /\ saved_progress' = saved_progress
                 /\ scores' = scores /\ progress' = saved_progress
                 /\ gen'.c = saved_state /\ gen'.j = 0]_vars
    /\ [](status = "running" =>
            /\ Len(gen.c) = n_attrs
            /\ last_run_n_attrs = n_attrs)

C3_Witness ==
    /\ status = "running"
    /\ started_as.branch = "discard" /\ started_as.dropped
    /\ scores = <<>> /\ saved_state = None /\ progress = 0

C10_TooFewInstances ==
    /\ (n_inst < minK) => (scores = <<>> /\ ~knn_fitted /\ score # "scored")
    /\ (n_inst < minK /\ score # "unset" /\ ~projector_fails(state))
            => score = "None"
    /\ knn_fitted =>
            /\ n_neighbors >= 1
            /\ n_neighbors = IF n_inst - 1 < minK THEN n_inst - 1 ELSE minK
    /\ score = "scored" => knn_fitted

C10_Witness ==
    /\ n_inst = minK - 1 /\ singular = {}
    /\ status = "running" /\ score = "None" /\ state # None
    /\ progress = state_count(attrs_len, n_attrs)
    /\ scores = <<>>

\* ==========================================================================
\* SpecPre: the widget receives data, the colour variable or the placement
\* is changed; each handler ends by deciding whether the search may start
\* ==========================================================================
\* a table: whether it is there, its number of continuous variables, of valid
\* instances, and whether its class allows LDA (discrete, two values or more)
Tables ==
    [present : {TRUE}, n_cont : 0..MaxCont, n_valid : 0..MaxValid,
     lda_ok : BOOLEAN]

\* a colour variable: its kind and whether its column is all missing
Colors == [kind : {"discrete", "continuous"}, all_nan : BOOLEAN]

Placements == {"Circular", "LDA", "PCA"}

\* len([v for v in self.continuous_variables if v is not self.attr_color])
usable_variables(d, color) ==
    IF ~d.present THEN 0
    ELSE IF color.kind = "continuous" THEN d.n_cont - 1 ELSE d.n_cont

\* ... < 3
not_enough_variables_OffByOne(u) == u <= 3
not_enough_variables(u) == u < 3

\* len(self.data[self.valid_data]) < 2
not_enough_instances(v) == v < 2

\* OWLinearProjection._init_vizrank: the button's enabled state and tooltip
init_vizrank(d, color, pl) ==
    IF ~d.present
    THEN [enabled |-> FALSE, msg |-> "There is no data."]
    ELSE IF color.kind = "none"
    THEN [enabled |-> FALSE, msg |-> "Color variable has to be selected"]
    ELSE IF color.kind = "continuous" /\ pl = "LDA"
    THEN [enabled |-> FALSE,
          msg |-> "Suggest Features does not work for Linear Discriminant Analysis Projection when continuous color variable is selected."]
    ELSE IF not_enough_variables(usable_variables(d, color))
    THEN [enabled |-> FALSE,
          msg |-> "Not enough available continuous variables"]
    ELSE IF not_enough_instances(d.n_valid)
    THEN [enabled |-> FALSE, msg |-> "Not enough valid data instances"]
    ELSE [enabled |-> ~color.all_nan, msg |-> ""]

\* OWLinearProjection.check_data: a table without continuous variables is
\* dropped
check_data(d) == IF d.present /\ d.n_cont = 0 THEN NoData ELSE d

\* OWLinearProjection._check_options: LDA is left when the table's class
\* does not allow it
check_options(d, pl) ==
    IF d.present /\ ~d.lda_ok /\ pl = "LDA" THEN "Circular" ELSE pl

\* the widget before any table has arrived
InitPre ==
    /\ data = NoData /\ attr_color = NoVar /\ placement = "Circular"
    /\ btn_enabled = init_vizrank(NoData, NoVar, "Circular").enabled
    /\ tooltip = init_vizrank(NoData, NoVar, "Circular").msg
    /\ EnumIdle /\ ResumeIdle /\ RankIdle /\ CombIdle /\ PlaceIdle

preFrame == UNCHANGED <<enumVars, resumeVars, rankVars, combVars, placeVars>>

\* set_data: the table and its colour variable are taken over
SetData ==
    /\ \E d \in Tables \cup {NoData}, color \in Colors \cup {NoVar} :
        LET d1 == check_data(d)
            pl == check_options(d1, placement)
            r == init_vizrank(d1, color, pl)
        IN  /\ ~d1.present => color = NoVar
            /\ color.kind = "continuous" => d1.n_cont >= 1
            /\ data' = d1
            /\ attr_color' = color
            /\ placement' = pl
            /\ btn_enabled' = r.enabled
            /\ tooltip' = r.msg
    /\ preFrame

\* colors_changed: another colour variable (or none) is selected
ColorsChanged ==
    /\ data.present
    /\ \E color \in Colors \cup {NoVar} :
        LET r == init_vizrank(data, color, placement)
        IN  /\ color # attr_color
            /\ color.kind = "continuous" => data.n_cont >= 1
            /\ attr_color' = color
            /\ btn_enabled' = r.enabled
            /\ tooltip' = r.msg
    /\ UNCHANGED <<data, placement>>
    /\ preFrame

\* __placement_radio_changed: another placement is selected; the LDA button
\* is enabled only when the class allows it
PlacementChanged ==
    /\ \E pl \in Placements :
        LET r == init_vizrank(data, attr_color, pl)
        IN  /\ pl # placement
            /\ pl = "LDA" => (~data.present \/ data.lda_ok)
            /\ placement' = pl
            /\ btn_enabled' = r.enabled
            /\ tooltip' = r.msg
    /\ UNCHANGED <<data, attr_color>>
    /\ preFrame

NextPre == SetData \/ ColorsChanged \/ PlacementChanged

SpecPre == InitPre /\ [][NextPre]_vars

\* ---- claims about the preconditions ----------------------------------------
Usable == usable_variables(data, attr_color)

TargetMissing == attr_color.all_nan

\* C7 (as stated): start needs 2 usable variables, 2 valid instances and a
\* target that is not all missing: it is disabled when one of them fails and,
\* with data and target present, enabled when all three hold.
C7_NeedsTwoVariables ==
    /\ (Usable < 2 \/ data.n_valid < 2 \/ TargetMissing) => ~btn_enabled
    /\ (data.present /\ attr_color # NoVar
            /\ Usable >= 2 /\ data.n_valid >= 2 /\ ~TargetMissing)
        => btn_enabled

\* C7 (amended): start needs 3 usable variables, 2 valid instances and a
\* target that is not all missing: it is disabled when one of them fails and,
\* with data and target present and unless the target is continuous while the
\* placement is LDA, enabled when all three hold.
C7_NeedsThreeVariables ==
    /\ (Usable < 3 \/ data.n_valid < 2 \/ TargetMissing) => ~btn_enabled
    /\ (data.present /\ attr_color # NoVar
            /\ ~(attr_color.kind = "continuous" /\ placement = "LDA")
            /\ Usable >= 3 /\ data.n_valid >= 2 /\ ~TargetMissing)
        => btn_enabled

C7_Witness ==
    /\ btn_enabled /\ Usable = 3 /\ data.n_valid = 2
    /\ attr_color.kind = "continuous"

\* C8: whenever start is left disabled a non-empty reason is shown; the
\* reason is empty only when start is enabled.
C8_ReasonWhenDisabled == ~btn_enabled => tooltip # ""

\* ==========================================================================
\* SpecComb: combinations(n, s) inside iterate_states(None), on its own:
\* the unordered subsets in the order they are visited
\* ==========================================================================
InitComb ==
    /\ attrs_len \in 1..MaxAttrs
    /\ n_attrs \in 1..attrs_len
    /\ comb = range(n_attrs)
    /\ comb_at = "start"
    /\ visited = <<>>
    /\ gen = IdleGen /\ yielded = <<>>
    /\ ResumeIdle /\ RankIdle /\ MasterIdle /\ PlaceIdle

combFrame ==
    UNCHANGED <<enumVars, resumeVars, rankVars, masterVars, placeVars>>

\* the first `yield s`
FirstCombination ==
    /\ comb_at = "start"
    /\ visited' = Append(visited, comb)
    /\ comb_at' = "yielded"
    /\ UNCHANGED comb
    /\ combFrame

\* after a yield: the for loop, s[-1] # n, and the next `yield s`
NextCombination ==
    /\ comb_at = "yielded"
    /\ LET nc == next_combination(attrs_len, comb)
       IN  /\ ~nc.stop
           /\ comb' = nc.s
           /\ visited' = Append(visited, nc.s)
    /\ UNCHANGED comb_at
    /\ combFrame

\* after a yield: the for loop, then s[-1] == n breaks the while loop
LastCombination ==
    /\ comb_at = "yielded"
    /\ LET nc == next_combination(attrs_len, comb)
       IN  /\ nc.stop
           /\ comb' = nc.s
    /\ comb_at' = "done"
    /\ UNCHANGED visited
    /\ combFrame

NextComb == FirstCombination \/ NextCombination \/ LastCombination

SpecComb == InitComb /\ [][NextComb]_vars

\* ---- claims about the traversal of the subsets -----------------------------
\* the k-element subsets of 0..n-1
subsets(n, k) == {S \in SUBSET (0..(n - 1)) : Cardinality(S) = k}

increasing(c) == \A i \in 1..(Len(c) - 1) : c[i] < c[i + 1]

\* b comes after a when the digits are compared from the highest down
later(a, b) ==
    \E i \in 1..Len(a) :
        /\ a[i] < b[i]
        /\ \A j \in (i + 1)..Len(a) : a[j] = b[j]

\* b is a with its lowest digit that can be incremented (it stays below the
\* next digit, or is the highest) incremented and all lower digits reset to
\* their smallest values 0, 1, ...
successor(a, b) ==
    \E i \in 1..Len(a) :
        /\ i = Len(a) \/ a[i] + 1 < a[i + 1]
        /\ \A j \in 1..(i - 1) : a[j] + 1 = a[j + 1]
        /\ b = [j \in 1..Len(a) |->
                    IF j < i THEN j - 1 ELSE IF j = i THEN a[i] + 1 ELSE a[j]]

\* C12: for 2 <= k <= n the traversal starts at (0,...,k-1), every list
\* visited has k strictly increasing digits below n, each is the successor
\* of the one before as a counter, it stops exactly when the highest digit
\* is n, and by then every k-subset of 0..n-1 was visited once (one subset
\* for k = n).
C12_CounterVisitsAllSubsets ==
    n_attrs >= 2 =>
        /\ visited # <<>> => visited[1] = range(n_attrs)
        /\ \A i \in 1..Len(visited) :
              /\ Len(visited[i]) = n_attrs
              /\ increasing(visited[i])
              /\ Range(visited[i]) \subseteq 0..(attrs_len - 1)
        /\ \A i \in 1..(Len(visited) - 1) :
              /\ successor(visited[i], visited[i + 1])
              /\ later(visited[i], visited[i + 1])
        /\ Cardinality({Range(visited[i]) : i \in 1..Len(visited)})
              = Len(visited)
        /\ comb_at = "done" <=> comb[n_attrs] = attrs_len
        /\ comb_at = "done" =>
              /\ {Range(visited[i]) : i \in 1..Len(visited)}
                    = subsets(attrs_len, n_attrs)
              /\ n_attrs = attrs_len => Len(visited) = 1

C12_Witness ==
    /\ comb_at = "done" /\ n_attrs >= 3 /\ attrs_len >= n_attrs + 2
    /\ Len(visited) = Cardinality(subsets(attrs_len, n_attrs))
    /\ Len(visited) >= 10

\* ==========================================================================
\* SpecPlace: CircularPlacement.get_components applied to a data matrix
\* ==========================================================================
\* an angle is kept exactly, as the fraction num/den of a full turn (2*pi)
turn(num, den) == [num |-> num, den |-> den]

same_angle(a, b) == a.num * b.den = b.num * a.den

\* np.linspace(0, 2 * np.pi, n, endpoint=...): n angles from 0, the step
\* being the full turn over n, or over n - 1 when the endpoint is included
linspace_full_turn(n, endpoint) ==
    LET div == IF endpoint THEN n - 1 ELSE n
    IN  [i \in 1..n |-> turn(i - 1, div)]

\* the list axes_angle for n_axes axes
axes_angle_EndpointIncluded(n_axes) ==
    IF n_axes = 1 THEN <<turn(0, 1)>>
    ELSE IF n_axes = 2 THEN <<turn(0, 1), turn(1, 4)>>
    ELSE linspace_full_turn(n_axes, TRUE)

axes_angle(n_axes) ==
    IF n_axes = 1 THEN <<turn(0, 1)>>
    ELSE IF n_axes = 2 THEN <<turn(0, 1), turn(1, 4)>>
    ELSE linspace_full_turn(n_axes, FALSE)

\* np.cos and np.sin of an angle: the angle they were taken of, and their
\* value where it is an integer (the angle a whole number of quarter turns)
quarters(a) == ((4 * a.num) \div a.den) % 4

whole_quarters(a) == (4 * a.num) % a.den = 0

cos(a) ==
    [of |-> a, exact |-> whole_quarters(a),
     value |-> IF ~whole_quarters(a) THEN 0
               ELSE CASE quarters(a) = 0 -> 1
                      [] quarters(a) = 2 -> -1
                      [] OTHER -> 0]

sin(a) ==
    [of |-> a, exact |-> whole_quarters(a),
     value |-> IF ~whole_quarters(a) THEN 0
               ELSE CASE quarters(a) = 1 -> 1
                      [] quarters(a) = 3 -> -1
                      [] OTHER -> 0]

\* X.shape[1]
n_columns(x) == Len(x[1])

\* CircularPlacement.get_components(X, Y): the row of cosines above the row
\* of sines (np.vstack)
get_components(x, y) ==
    LET angles == axes_angle(n_columns(x))
    IN  << [i \in 1..Len(angles) |-> cos(angles[i])],
           [i \in 1..Len(angles) |-> sin(angles[i])] >>

InitPlace ==
    /\ \E rows \in 1..MaxRows, n_axes \in 1..MaxAxes :
          /\ X \in [1..rows -> [1..n_axes -> {0, 1}]]
          /\ Y \in [1..rows -> {0, 1}]
    /\ components = None
    /\ EnumIdle /\ ResumeIdle /\ RankIdle /\ MasterIdle /\ CombIdle

GetComponents ==
    /\ components = None
    /\ components' = get_components(X, Y)
    /\ UNCHANGED <<X, Y, enumVars, resumeVars, rankVars, masterVars,
                   combVars>>

NextPlace == GetComponents

SpecPlace == InitPlace /\ [][NextPlace]_vars

\* ---- claims about the circular placement -----------------------------------
\* C11: for m >= 1 axes the result has m directions (cos a, sin a), hence of
\* unit length, whose angles a are 0 for m = 1, 0 and a quarter turn for
\* m = 2, and i/m of a full turn, i = 0..m-1, for m >= 3 (from 0, below a
\* full turn, all distinct); it is the same for all data of m columns.
C11_CircularAngles ==
    components # None =>
        LET m == n_columns(X)
            c == components[1]
            s == components[2]
        IN  /\ Len(components) = 2 /\ Len(c) = m /\ Len(s) = m
            /\ \A i \in 1..m :
                  /\ c[i] = cos(c[i].of) /\ s[i] = sin(c[i].of)
                  /\ c[i].exact =>
                        c[i].value * c[i].value + s[i].value * s[i].value = 1
                  /\ c[i].of.den > 0 /\ c[i].of.num >= 0
                  /\ c[i].of.num < c[i].of.den
            /\ same_angle(c[1].of, turn(0, 1))
            /\ m = 2 => same_angle(c[2].of, turn(1, 4))
            /\ m >= 3 =>
                  /\ \A i \in 1..m : same_angle(c[i].of, turn(i - 1, m))
                  /\ \A i, j \in 1..m :
                        i # j => ~same_angle(c[i].of, c[j].of)

C11_Witness ==
    /\ components # None
    /\ n_columns(X) = 4
    /\ \E i \in 1..4 : X[1][i] = 1
    /\ components[1][2].value = 0 /\ components[2][2].value = 1
    /\ components[1][3].value = -1 /\ components[2][3].value = 0
    /\ components[2][4].value = -1

====
